---- MODULE Spec2Model ----
(***************************************************************************)
(* Model of the scheduler-mcp repository.                                  *)
(*                                                                         *)
(*   - mcp_scheduler/executor.py : Executor.execute_task and the four      *)
(*     type-specific actions, as operators over character sequences.       *)
(*   - main.py                   : the two threads (scheduler thread and   *)
(*     request-handling thread) that share one Scheduler object.           *)
(*   - the Scheduler Engine and the Task Store (mcp_scheduler/scheduler.py *)
(*     and persistence.py are not part of the sources at hand): modelled   *)
(*     from sections 4.2, 4.4 and 5 of the specification.                  *)
(*                                                                         *)
(* Python strings are sequences of one-character strings, so that prefix,  *)
(* substring, strip and split are computed and not assumed.  An            *)
(* Optional[str] is a sequence of length 0 (None) or 1 (the string).       *)
(***************************************************************************)
EXTENDS Integers, Sequences, FiniteSets, TLC

(***************************************************************************)
(* Text                                                                    *)
(***************************************************************************)
None == <<>>

Some(s) == <<s>>

\* Python truthiness of an Optional[str]: neither None nor "".
Truthy(o) == o # None /\ o[1] # <<>>

IsPrefix(p, s) == Len(p) <= Len(s) /\ \A i \in 1..Len(p) : s[i] = p[i]

Contains(s, sub) ==
    \E k \in 0..(Len(s) - Len(sub)) : \A i \in 1..Len(sub) : s[k + i] = sub[i]

IsSpace(c) == c \in {" ", "\t", "\n"}

RECURSIVE LStrip(_)
LStrip(s) == IF s # <<>> /\ IsSpace(Head(s)) THEN LStrip(Tail(s)) ELSE s

RECURSIVE RStrip(_)
RStrip(s) ==
    IF s # <<>> /\ IsSpace(s[Len(s)]) THEN RStrip(SubSeq(s, 1, Len(s) - 1)) ELSE s

\* str.strip()
Strip(s) == RStrip(LStrip(s))

\* str.lower(), on the upper-case letters the modelled inputs use
LowerChar(c) ==
    CASE c = "E" -> "e" [] c = "C" -> "c" [] c = "H" -> "h" [] c = "O" -> "o"
      [] OTHER -> c

Lower(s) == [i \in 1..Len(s) |-> LowerChar(s[i])]

Digit(d) == <<"0", "1", "2", "3", "4", "5", "6", "7", "8", "9">>[d + 1]

\* str(n) of a natural number
RECURSIVE NumStr(_)
NumStr(n) == IF n < 10 THEN <<Digit(n)>> ELSE NumStr(n \div 10) \o <<Digit(n % 10)>>

(***************************************************************************)
(* Results of a call: a pair (output, error), or an exception that escapes *)
(***************************************************************************)
Ret(out, err) == [raised |-> FALSE, output |-> out, error |-> err, exc |-> <<>>]

Raise(msg) == [raised |-> TRUE, output |-> None, error |-> None, exc |-> msg]

(***************************************************************************)
(* Executor configuration and host                                         *)
(***************************************************************************)
\* config.execution_timeout, default 300 seconds
ExecutionTimeout == 300

\* Config.ai_provider: the providers get_ai_config knows
Providers == {"openai", "azure", "anthropic", "local"}

\* the settings of Config the executor reads, at their defaults
DefaultConfig ==
    [ai_provider |-> "openai",
     openai_api_key |-> None,
     azure_openai_api_key |-> None,
     anthropic_api_key |-> None,
     local_model_api_key |-> Some(<<"o","l","l","a","m","a">>),
     execution_timeout |-> ExecutionTimeout]

\* Config.get_ai_config()["api_key"]: the key of the selected provider
get_ai_config(config) ==
    CASE config.ai_provider = "openai" -> [api_key |-> config.openai_api_key]
      [] config.ai_provider = "azure" -> [api_key |-> config.azure_openai_api_key]
      [] config.ai_provider = "anthropic" -> [api_key |-> config.anthropic_api_key]
      [] OTHER -> [api_key |-> config.local_model_api_key]

\* timeout=self.execution_timeout of the shell command's wait_for
shell_timeout(config) == config.execution_timeout

\* aiohttp.ClientTimeout(total=self.execution_timeout)
api_timeout(config) == config.execution_timeout

\* timeout=30.0 of the completion request's wait_for
AiTimeout == 30

\* a variant of ai_timeout that follows the configuration
ai_timeout_configured(config) == config.execution_timeout

ai_timeout(config) == AiTimeout

\* a variant of init_ai_client without the early return on a missing key
init_ai_client_any_key(config) == [client |-> TRUE, completion_calls |-> 1]

\* Executor._init_ai_client: no client without an API key; otherwise the
\* client is built and _test_ai_connection sends one completion request,
\* whose failure is logged and leaves the client in place
init_ai_client(config) ==
    IF ~Truthy(get_ai_config(config).api_key)
    THEN [client |-> FALSE, completion_calls |-> 0]
    ELSE [client |-> TRUE, completion_calls |-> 1]

Platforms == {"Windows", "Darwin", "Linux"}

\* platform.system() as text
PlatformName(platform) ==
    CASE platform = "Windows" -> <<"W","i","n","d","o","w","s">>
      [] platform = "Darwin" -> <<"D","a","r","w","i","n">>
      [] OTHER -> <<"L","i","n","u","x">>

\* self.is_windows = platform.system() == "Windows"
is_windows(platform) == platform = "Windows"

\* Programs that exist as executables on the host's PATH: the usual ones and
\* the notification tools installed (env.tools).  Shell builtins such as exit
\* are not among them on any platform.
BaseBinaries ==
    { <<"f","a","l","s","e">>, <<"t","r","u","e">>, <<"l","s">>, <<"w","c">>,
      <<"e","c","h","o">> }

HostBinaries(env) == BaseBinaries \cup env.tools

(***************************************************************************)
(* shlex.split (POSIX mode): whitespace separates, quotes group, backslash *)
(* escapes; an unclosed quote or a trailing backslash is a ValueError.     *)
(***************************************************************************)
\* the lexer's state before a character: "a" outside quotes, "s" and "d"
\* inside single and double quotes, "ea" and "ed" after a backslash
ShlexStep(mode, c) ==
    CASE mode = "a" -> (IF c = "\\" THEN "ea" ELSE IF c = "'" THEN "s"
                        ELSE IF c = "\"" THEN "d" ELSE "a")
      [] mode = "ea" -> "a"
      [] mode = "s" -> (IF c = "'" THEN "a" ELSE "s")
      [] mode = "d" -> (IF c = "\"" THEN "a" ELSE IF c = "\\" THEN "ed" ELSE "d")
      [] OTHER -> "d"

\* the states before the characters lo..hi of s, entered in state mode
RECURSIVE ShlexModes(_, _, _, _)
ShlexModes(s, lo, hi, mode) ==
    IF lo > hi THEN <<>>
    ELSE IF lo = hi THEN <<mode>>
    ELSE LET mid == (lo + hi) \div 2
             left == ShlexModes(s, lo, mid, mode)
         IN  left \o ShlexModes(s, mid + 1, hi, ShlexStep(left[Len(left)], s[mid]))

\* what a character read in a state adds to the current word
ShlexChars(mode, c) ==
    CASE mode = "a" -> (IF IsSpace(c) \/ c \in {"\\", "'", "\""} THEN <<>> ELSE <<c>>)
      [] mode = "ea" -> <<c>>
      [] mode = "s" -> (IF c = "'" THEN <<>> ELSE <<c>>)
      [] mode = "d" -> (IF c \in {"\"", "\\"} THEN <<>> ELSE <<c>>)
      [] OTHER -> (IF c \in {"\"", "\\"} THEN <<c>> ELSE <<"\\", c>>)

\* the characters of the word that spans lo..hi
RECURSIVE ShlexWord(_, _, _, _)
ShlexWord(s, modes, lo, hi) ==
    IF lo > hi THEN <<>>
    ELSE IF lo = hi THEN ShlexChars(modes[lo], s[lo])
    ELSE LET mid == (lo + hi) \div 2
         IN  ShlexWord(s, modes, lo, mid) \o ShlexWord(s, modes, mid + 1, hi)

\* whitespace outside quotes separates words
ShlexDelim(s, modes, i) == modes[i] = "a" /\ IsSpace(s[i])

\* where the words of s begin
ShlexStarts(s, modes) ==
    {i \in 1..Len(s) : ~ShlexDelim(s, modes, i) /\ (i = 1 \/ ShlexDelim(s, modes, i - 1))}

\* where the word that begins at p ends
ShlexEnd(s, modes, p) ==
    CHOOSE q \in p..Len(s) :
        /\ \A i \in p..q : ~ShlexDelim(s, modes, i)
        /\ q = Len(s) \/ ShlexDelim(s, modes, q + 1)

ShlexWords(s, modes, starts) ==
    [j \in 1..Cardinality(starts) |->
        ShlexWord(s, modes,
                  CHOOSE p \in starts : Cardinality({q \in starts : q < p}) = j - 1,
                  ShlexEnd(s, modes,
                           CHOOSE p \in starts : Cardinality({q \in starts : q < p}) = j - 1))]

ShlexResult(s, modes) ==
    IF s # <<>> /\ ShlexStep(modes[Len(s)], s[Len(s)]) \in {"s", "d"}
    THEN [ok |-> FALSE, args |-> <<>>,
          msg |-> <<"N","o"," ","c","l","o","s","i","n","g"," ","q","u","o","t","a","t","i","o","n">>]
    ELSE IF s # <<>> /\ ShlexStep(modes[Len(s)], s[Len(s)]) \in {"ea", "ed"}
    THEN [ok |-> FALSE, args |-> <<>>,
          msg |-> <<"N","o"," ","e","s","c","a","p","e","d"," ","c","h","a","r","a","c","t","e","r">>]
    ELSE [ok |-> TRUE, args |-> ShlexWords(s, modes, ShlexStarts(s, modes)), msg |-> <<>>]

shlex_split(command) == ShlexResult(command, ShlexModes(command, 1, Len(command), "a"))

(***************************************************************************)
(* Executor._execute_shell_command                                         *)
(***************************************************************************)
\* shell_commands = ['start', 'cd', 'dir', 'echo', 'set', 'type', 'copy',
\*                   'del', 'md', 'rd', 'ren', 'cls']
shell_commands ==
    << <<"s","t","a","r","t">>, <<"c","d">>, <<"d","i","r">>, <<"e","c","h","o">>,
       <<"s","e","t">>, <<"t","y","p","e">>, <<"c","o","p","y">>, <<"d","e","l">>,
       <<"m","d">>, <<"r","d">>, <<"r","e","n">>, <<"c","l","s">> >>

\* use_shell as computed before the process is spawned
use_shell(command, platform) ==
    \/ is_windows(platform)
    \/ \E k \in 1..Len(shell_commands) :
           IsPrefix(shell_commands[k], Lower(Strip(command)))
    \/ \E i \in 1..Len(command) : command[i] \in {"|", ">", "<"}

\* bytes.decode(): a byte that is not UTF-8 raises UnicodeDecodeError
BadByte == "\\xff"

Decodable(b) == \A i \in 1..Len(b) : b[i] # BadByte

\* The exit status the spawned process ends with.  A shell that interprets
\* "exit N" ends with N; any other program ends with what the host makes of
\* it (env.rc).
ExitWord == <<"e","x","i","t"," ">>

IsExitCommand(command) ==
    /\ IsPrefix(ExitWord, Strip(command))
    /\ Len(Strip(command)) = Len(ExitWord) + 1
    /\ \E d \in 0..9 : Strip(command)[Len(ExitWord) + 1] = Digit(d)

ExitArgument(command) ==
    CHOOSE d \in 0..9 : Strip(command)[Len(ExitWord) + 1] = Digit(d)

returncode(command, env) ==
    IF IsExitCommand(command) THEN ExitArgument(command) ELSE env.rc

\* a variant of communicate without the except asyncio.TimeoutError clause
communicate_unhandled_timeout(command, env) ==
    IF env.timeout
    THEN Raise(<<>>)
    ELSE IF returncode(command, env) # 0
         THEN Ret(None,
                  Some(<<"C","o","m","m","a","n","d"," ","f","a","i","l","e","d"," ","w","i","t","h"," ","e","x","i","t"," ","c","o","d","e"," ">>
                       \o NumStr(returncode(command, env)) \o <<":"," ">> \o env.stderr))
         ELSE Ret(Some(Strip(env.stdout)), None)

\* lines 208-225: wait for the process under the timeout and map its result
communicate(command, env) ==
    IF env.timeout
    THEN Ret(None, Some(<<"C","o","m","m","a","n","d"," ","t","i","m","e","d"," ","o","u","t"," ","a","f","t","e","r"," ">>
                        \o NumStr(env.execution_timeout) \o <<" ","s","e","c","o","n","d","s">>))
    ELSE IF returncode(command, env) # 0
         THEN IF env.stderr # <<>> /\ ~Decodable(env.stderr)
              THEN Raise(<<"'","u","t","f","-","8","'"," ","c","o","d","e","c"," ","c","a","n","'","t"," ","d","e","c","o","d","e"," ","b","y","t","e">>)
              ELSE Ret(None,
                       Some(<<"C","o","m","m","a","n","d"," ","f","a","i","l","e","d"," ","w","i","t","h"," ","e","x","i","t"," ","c","o","d","e"," ">>
                            \o NumStr(returncode(command, env)) \o <<":"," ">>
                            \o (IF env.stderr # <<>> THEN env.stderr
                                ELSE <<"U","n","k","n","o","w","n"," ","e","r","r","o","r">>)))
         ELSE IF ~Decodable(env.stdout)
              THEN Raise(<<"'","u","t","f","-","8","'"," ","c","o","d","e","c"," ","c","a","n","'","t"," ","d","e","c","o","d","e"," ","b","y","t","e">>)
              ELSE Ret(Some(Strip(env.stdout)), None)

\* lines 180-206: spawn the process, through a shell or directly
spawn(command, platform, env) ==
    IF use_shell(command, platform)
    THEN communicate(command, env)
    ELSE LET sp == shlex_split(command) IN
         IF ~sp.ok
         THEN Ret(None, Some(<<"I","n","v","a","l","i","d"," ","c","o","m","m","a","n","d"," ","s","y","n","t","a","x",":"," ">> \o sp.msg))
         ELSE IF sp.args = <<>> \/ sp.args[1] \notin HostBinaries(env)
              THEN Raise(<<"[","E","r","r","n","o"," ","2","]"," ","N","o"," ","s","u","c","h"," ","f","i","l","e"," ","o","r"," ","d","i","r","e","c","t","o","r","y",":"," ">>
                         \o (IF sp.args = <<>> THEN <<>> ELSE sp.args[1]))
              ELSE communicate(command, env)

\* a process was spawned for the command (lines 189-206 did not raise)
spawned(command, platform, env) ==
    /\ command # <<>>
    /\ \/ use_shell(command, platform)
       \/ /\ shlex_split(command).ok
          /\ shlex_split(command).args # <<>>
          /\ shlex_split(command).args[1] \in HostBinaries(env)

\* what became of the spawned process: process.kill() on a timeout (lines
\* 220-224), otherwise it ended by itself
process_after(command, platform, env) ==
    IF ~spawned(command, platform, env) THEN "none"
    ELSE IF env.timeout THEN "killed" ELSE "exited"

execute_shell_command(command, platform, env) ==
    IF command = <<>>
    THEN Ret(None, Some(<<"N","o"," ","c","o","m","m","a","n","d"," ","s","p","e","c","i","f","i","e","d">>))
    ELSE LET r == spawn(command, platform, env) IN
         IF r.raised
         THEN Ret(None, Some(<<"F","a","i","l","e","d"," ","t","o"," ","e","x","e","c","u","t","e"," ","c","o","m","m","a","n","d",":"," ">> \o r.exc))
         ELSE r


(***************************************************************************)
(* Executor._execute_api_call                                              *)
(***************************************************************************)
\* a variant of api_response that accepts status 400
api_response_above_400(env) ==
    IF env.http.kind = "client_error"
    THEN Ret(None, Some(<<"A","P","I"," ","c","a","l","l"," ","f","a","i","l","e","d",":"," ">> \o env.http.text))
    ELSE IF env.http.kind = "timeout"
         THEN Ret(None, Some(<<"A","P","I"," ","c","a","l","l"," ","t","i","m","e","d"," ","o","u","t">>))
         ELSE IF env.http.kind = "exception"
              THEN Raise(env.http.text)
              ELSE IF env.http.status > 400
                   THEN Ret(None, Some(<<"A","P","I"," ","c","a","l","l"," ","f","a","i","l","e","d"," ","w","i","t","h"," ","s","t","a","t","u","s"," ">>
                                       \o NumStr(env.http.status) \o <<":"," ">> \o env.http.text))
                   ELSE Ret(Some(env.http.text), None)

\* What the HTTP layer does with the request: a response, an
\* aiohttp.ClientError, an asyncio.TimeoutError, or any other exception
\* (invalid argument, unserialisable body), which the function does not catch.
api_response(env) ==
    IF env.http.kind = "client_error"
    THEN Ret(None, Some(<<"A","P","I"," ","c","a","l","l"," ","f","a","i","l","e","d",":"," ">> \o env.http.text))
    ELSE IF env.http.kind = "timeout"
         THEN Ret(None, Some(<<"A","P","I"," ","c","a","l","l"," ","t","i","m","e","d"," ","o","u","t"," ","a","f","t","e","r"," ">>
                             \o NumStr(env.execution_timeout) \o <<" ","s","e","c","o","n","d","s">>))
         ELSE IF env.http.kind = "exception"
              THEN Raise(env.http.text)
              ELSE IF env.http.status >= 400
                   THEN Ret(None, Some(<<"A","P","I"," ","c","a","l","l"," ","f","a","i","l","e","d"," ","w","i","t","h"," ","s","t","a","t","u","s"," ">>
                                       \o NumStr(env.http.status) \o <<":"," ">> \o env.http.text))
                   ELSE Ret(Some(env.http.text), None)

execute_api_call(url, env) ==
    IF url = <<>>
    THEN Ret(None, Some(<<"N","o"," ","U","R","L"," ","s","p","e","c","i","f","i","e","d">>))
    ELSE api_response(env)

(***************************************************************************)
(* Executor._execute_ai_task                                               *)
(***************************************************************************)
\* lines 304-319: the completion call under the fixed timeout
ai_completion(env) ==
    IF env.ai.kind = "timeout"
    THEN Ret(None, Some(<<"A","I"," ","A","P","I"," ","c","a","l","l"," ","t","i","m","e","d"," ","o","u","t">>))
    ELSE IF env.ai.kind = "error"
         THEN Raise(env.ai.text)
         ELSE IF env.ai.kind = "no_choices"
              THEN Raise(<<"l","i","s","t"," ","i","n","d","e","x"," ","o","u","t"," ","o","f"," ","r","a","n","g","e">>)
              ELSE Ret(env.ai.content, None)

execute_ai_task(prompt, ai_client, env) ==
    IF prompt = <<>>
    THEN Ret(None, Some(<<"N","o"," ","p","r","o","m","p","t"," ","s","p","e","c","i","f","i","e","d">>))
    ELSE IF ~ai_client
         THEN Ret(None, Some(<<"N","o"," ","A","I"," ","c","l","i","e","n","t"," ","c","o","n","f","i","g","u","r","e","d"," ","f","o","r"," ","A","I"," ","t","a","s","k","s">>))
         ELSE LET r == ai_completion(env) IN
              IF r.raised
              THEN Ret(None, Some(<<"A","I"," ","t","a","s","k"," ","f","a","i","l","e","d",":"," ">> \o r.exc))
              ELSE r

(***************************************************************************)
(* Executor._execute_reminder_task                                         *)
(***************************************************************************)
\* str.replace(old, new) for a one-character old
RECURSIVE Replace(_, _, _)
Replace(s, old, new) ==
    IF s = <<>> THEN <<>>
    ELSE (IF Head(s) = old THEN new ELSE <<Head(s)>>) \o Replace(Tail(s), old, new)

notify_send == <<"n","o","t","i","f","y","-","s","e","n","d">>

zenity == <<"z","e","n","i","t","y">>

xmessage == <<"x","m","e","s","s","a","g","e">>

osascript == <<"o","s","a","s","c","r","i","p","t">>

sound_cmd ==
    <<"p","a","p","l","a","y"," ","/","u","s","r","/","s","h","a","r","e","/","s","o","u","n","d","s","/","f","r","e","e","d","e","s","k","t","o","p","/","s","t","e","r","e","o","/","m","e","s","s","a","g","e",".","o","g","a">>

\* a variant of which that answers for any of the three notifiers at once
which_any_notifier(tool, env) ==
    IF env.tools \cap {notify_send, zenity, xmessage} # {} THEN 0 ELSE 1

\* "which <tool>" ends with status 0 exactly when the tool is installed
which(tool, env) == IF tool \in env.tools THEN 0 ELSE 1

\* os.path.join(os.environ.get('TEMP', ''), '') + 'notification.hta'
temp_html == <<"C",":","\\","T","e","m","p","\\">> \o <<"n","o","t","i","f","i","c","a","t","i","o","n",".","h","t","a">>

\* lines 337-427: the file is written (an I/O error is raised), the command
\* that opens it is built, and the beep is run with its result dropped
windows_command(env) ==
    IF env.write_fails
    THEN Raise(<<"P","e","r","m","i","s","s","i","o","n"," ","d","e","n","i","e","d">>)
    ELSE [raised |-> FALSE,
          output |-> Some(<<"s","t","a","r","t"," ","m","s","h","t","a",".","e","x","e"," ","\"">> \o temp_html \o <<"\"">>),
          error |-> execute_shell_command(
                        <<"r","u","n","d","l","l","3","2"," ","u","s","e","r","3","2",".","d","l","l",",","M","e","s","s","a","g","e","B","e","e","p">>,
                        "Windows", env).error,
          exc |-> <<>>]

\* lines 429-434
darwin_command(title, message) ==
    LET safe_title == Replace(title, "\"", <<"\\", "\"">>)
        safe_message == Replace(message, "\"", <<"\\", "\"">>)
    IN  <<"o","s","a","s","c","r","i","p","t"," ","-","e"," ","'","d","i","s","p","l","a","y"," ","n","o","t","i","f","i","c","a","t","i","o","n"," ","\"">>
        \o safe_message \o <<"\""," ","w","i","t","h"," ","t","i","t","l","e"," ","\"">>
        \o safe_title \o <<"\""," ","s","o","u","n","d"," ","n","a","m","e"," ","\"","d","e","f","a","u","l","t","\"","'">>

\* lines 436-479: the fallback chain notify-send, zenity, xmessage; <<>> when
\* none of the three is installed
linux_command(title, message, env) ==
    LET safe_title == Replace(title, "\"", <<"\\", "\"">>)
        safe_message == Replace(message, "\"", <<"\\", "\"">>)
    IN  IF which(notify_send, env) = 0
        THEN <<"n","o","t","i","f","y","-","s","e","n","d"," ","-","u"," ","n","o","r","m","a","l"," ","\"">>
             \o safe_title \o <<"\""," ","\"">> \o safe_message \o <<"\"">>
             \o <<" ","&","&"," ">> \o sound_cmd
        ELSE IF which(zenity, env) = 0
             THEN <<"z","e","n","i","t","y"," ","-","-","i","n","f","o"," ","-","-","t","i","t","l","e","=","\"">>
                  \o safe_title \o <<"\""," ","-","-","t","e","x","t","=","\"">> \o safe_message
                  \o <<"\""," ","&"," ">> \o sound_cmd
             ELSE IF which(xmessage, env) = 0
                  THEN <<"x","m","e","s","s","a","g","e"," ","-","c","e","n","t","e","r"," ","\"">>
                       \o safe_title \o <<":"," ">> \o safe_message \o <<"\""," ","&"," ">> \o sound_cmd
                  ELSE <<>>

\* lines 481-489: run the notification command and map its result
run_notification(command, title, platform, env) ==
    LET r == execute_shell_command(command, platform, env) IN
    IF Truthy(r.error)
    THEN Ret(None, Some(<<"N","o","t","i","f","i","c","a","t","i","o","n"," ","f","a","i","l","e","d",":"," ">> \o r.error[1]))
    ELSE Ret(Some(<<"D","i","s","p","l","a","y","e","d"," ","n","o","t","i","f","i","c","a","t","i","o","n",":"," ">> \o title), None)

execute_reminder_task(title, message, platform, env) ==
    IF message = <<>>
    THEN Ret(None, Some(<<"N","o"," ","m","e","s","s","a","g","e"," ","s","p","e","c","i","f","i","e","d"," ","f","o","r"," ","r","e","m","i","n","d","e","r">>))
    ELSE IF platform = "Windows"
         THEN LET w == windows_command(env) IN
              IF w.raised
              THEN Ret(None, Some(<<"R","e","m","i","n","d","e","r"," ","t","a","s","k"," ","f","a","i","l","e","d",":"," ">> \o w.exc))
              ELSE run_notification(w.output[1], title, platform, env)
         ELSE IF platform = "Darwin"
              THEN run_notification(darwin_command(title, message), title, platform, env)
              ELSE LET command == linux_command(title, message, env) IN
                   IF command = <<>>
                   THEN Ret(None, Some(<<"N","o"," ","n","o","t","i","f","i","c","a","t","i","o","n"," ","c","o","m","m","a","n","d"," ","a","v","a","i","l","a","b","l","e"," ","o","n"," ","t","h","i","s"," ","s","y","s","t","e","m"," ","(">>
                                       \o PlatformName(platform) \o <<")">>))
                   ELSE run_notification(command, title, platform, env)

(***************************************************************************)
(* Executor.execute_task                                                   *)
(***************************************************************************)
TaskTypes == {"shell_command", "api_call", "ai", "reminder", "other"}

\* execution = TaskExecution(task_id=task.id): no result yet
TaskExecution == [status |-> "pending", output |-> None, error |-> None, raised |-> FALSE]

\* the type-specific action the task's type selects (lines 103-149)
dispatch(task, platform, ai_client, env) ==
    CASE task.type = "shell_command" ->
             execute_shell_command(task.command, platform, env)
      [] task.type = "api_call" -> execute_api_call(task.api_url, env)
      [] task.type = "ai" -> execute_ai_task(task.prompt, ai_client, env)
      [] task.type = "reminder" ->
             execute_reminder_task(
                 IF task.reminder_title # <<>> THEN task.reminder_title ELSE task.name,
                 task.reminder_message, platform, env)
      [] OTHER -> Ret(None, Some(<<"U","n","s","u","p","p","o","r","t","e","d"," ","t","a","s","k"," ","t","y","p","e",":"," ">> \o <<"o","t","h","e","r">>))

\* a variant of from_pair that drops the error branch
from_pair_ignoring_error(r) ==
    [TaskExecution EXCEPT !.status = "completed", !.output = r.output]

\* if error: FAILED with the error, else COMPLETED with the output
from_pair(r) ==
    IF Truthy(r.error)
    THEN [TaskExecution EXCEPT !.status = "failed", !.error = r.error]
    ELSE [TaskExecution EXCEPT !.status = "completed", !.output = r.output]

\* except Exception as e: FAILED with str(e)
from_exception(r) ==
    [TaskExecution EXCEPT !.status = "failed", !.error = Some(r.exc)]

\* a variant of execute_task without the except clause
execute_task_unguarded(task, platform, ai_client, env) ==
    LET r == dispatch(task, platform, ai_client, env) IN
    IF r.raised THEN [TaskExecution EXCEPT !.raised = TRUE] ELSE from_pair(r)

execute_task(task, platform, ai_client, env) ==
    LET r == dispatch(task, platform, ai_client, env) IN
    IF r.raised THEN from_exception(r) ELSE from_pair(r)

(***************************************************************************)
(* Inputs: tasks and what the host does with an action                     *)
(***************************************************************************)
Task(type) ==
    [type |-> type, name |-> <<"R","e","p","o","r","t">>, command |-> <<>>,
     api_url |-> <<>>, prompt |-> <<>>, reminder_title |-> <<>>,
     reminder_message |-> <<>>]

Commands ==
    { <<>>,
      <<"e","x","i","t"," ","1">>,
      <<"f","a","l","s","e">>,
      <<"t","r","u","e">>,
      <<"e","c","h","o"," ","h","i">>,
      <<"l","s","|","w","c">>,
      <<"l","s"," ","'","a">>,
      <<"n","o","s","u","c","h">> }

DefaultEnv ==
    [execution_timeout |-> ExecutionTimeout, duration |-> 0,
     timeout |-> FALSE, rc |-> 0, stdout |-> <<>>, stderr |-> <<>>,
     http |-> [kind |-> "response", status |-> 200, text |-> <<>>],
     ai |-> [kind |-> "content", content |-> None, text |-> <<>>],
     tools |-> {}, write_fails |-> FALSE]

\* the seconds an action takes on the host before it ends by itself
Durations == {5, 20, 100, 400}

ShellEnvs ==
    { [DefaultEnv EXCEPT !.duration = d, !.rc = rc, !.stdout = so, !.stderr = se] :
        d \in Durations,
        rc \in {0, 1, 2},
        so \in { <<>>, <<"o","k","\n">>, <<BadByte>> },
        se \in { <<>>, <<"b","o","o","m">>, <<BadByte>> } }

HttpOutcomes ==
    { [kind |-> "response", status |-> st, text |-> b] :
          st \in {200, 399, 400, 404},
          b \in { <<>>, <<"n","o","t"," ","f","o","u","n","d">> } }
    \cup { [kind |-> k, status |-> 0, text |-> m] :
             k \in {"client_error", "exception"},
             m \in { <<>>, <<"b","o","o","m">> } }

ApiEnvs ==
    { [DefaultEnv EXCEPT !.http = h, !.duration = d] :
        h \in HttpOutcomes, d \in {5, 400} }

AiOutcomes ==
    { [kind |-> "content", content |-> c, text |-> <<>>] :
        c \in { None, Some(<<>>), Some(<<"a","n","s","w","e","r">>) } }
    \cup { [kind |-> k, content |-> None, text |-> m] :
             k \in {"error", "no_choices"},
             m \in { <<>>, <<"b","o","o","m">> } }

AiEnvs ==
    { [DefaultEnv EXCEPT !.ai = a, !.duration = d] :
        a \in AiOutcomes, d \in Durations }

ReminderEnvs ==
    { [DefaultEnv EXCEPT !.tools = tl, !.write_fails = wf, !.rc = rc, !.duration = d] :
        tl \in SUBSET {notify_send, zenity, xmessage, osascript},
        wf \in BOOLEAN, rc \in {0, 1}, d \in {5, 400} }

ShellTasks == { [Task("shell_command") EXCEPT !.command = c] : c \in Commands }

ApiTasks ==
    { [Task("api_call") EXCEPT !.api_url = u] :
        u \in { <<>>, <<"h","t","t","p",":","/","/","x","/","r","e","p","o","r","t">> } }

AiTasks == { [Task("ai") EXCEPT !.prompt = q] : q \in { <<>>, <<"h","i">> } }

ReminderTasks ==
    { [Task("reminder") EXCEPT !.reminder_title = tt, !.reminder_message = m] :
        tt \in { <<>>, <<"T">> }, m \in { <<>>, <<"h","i">>, <<"a",">","b">> } }

OtherTasks == { Task("other") }

\* the configuration with the selected provider and, unless "default", the
\* key given for it
ConfigWith(provider, key) ==
    LET c == [DefaultConfig EXCEPT !.ai_provider = provider] IN
    IF key = "default" THEN c
    ELSE CASE provider = "openai" -> [c EXCEPT !.openai_api_key = key]
           [] provider = "azure" -> [c EXCEPT !.azure_openai_api_key = key]
           [] provider = "anthropic" -> [c EXCEPT !.anthropic_api_key = key]
           [] OTHER -> [c EXCEPT !.local_model_api_key = key]

\* a key left at its default, set to the empty string, or set
Keys == {"default", Some(<<>>), Some(<<"s","k","-","1">>)}

\* values of Config.execution_timeout
ExecutionTimeouts == {10, ExecutionTimeout}

Configs ==
    { [ConfigWith(p, k) EXCEPT !.execution_timeout = x] :
        p \in Providers, k \in Keys, x \in ExecutionTimeouts }

TimeoutConfigs ==
    { [DefaultConfig EXCEPT !.execution_timeout = x] : x \in ExecutionTimeouts }

\* asyncio.wait_for(..., timeout) and aiohttp.ClientTimeout(total=timeout):
\* an action that takes longer than the timeout is cut off
expires(duration, timeout) == duration > timeout

\* what an executor built from config sees of the host: its own
\* execution_timeout, and each action cut off at the timeout given for it
Timed(e, config) ==
    [e EXCEPT !.execution_timeout = config.execution_timeout,
              !.timeout = expires(e.duration, shell_timeout(config)),
              !.http.kind = IF @ = "response" /\ expires(e.duration, api_timeout(config))
                            THEN "timeout" ELSE @,
              !.ai.kind = IF @ = "content" /\ expires(e.duration, ai_timeout(config))
                          THEN "timeout" ELSE @]

\* an executor constructed from config on a host, and one call of execute_task
Call(t, pf, config, e) ==
    [task |-> t, platform |-> pf, config |-> config,
     ai_client |-> init_ai_client(config).client, env |-> Timed(e, config)]

\* the calls of execute_task the executor is examined on
Calls ==
    { Call(t, pf, c, e) :
        t \in ShellTasks, pf \in Platforms, c \in TimeoutConfigs, e \in ShellEnvs }
    \cup { Call(t, "Linux", c, e) :
             t \in ApiTasks, c \in TimeoutConfigs, e \in ApiEnvs }
    \cup { Call(t, "Linux", c, e) : t \in AiTasks, c \in Configs, e \in AiEnvs }
    \cup { Call(t, pf, DefaultConfig, e) :
             t \in ReminderTasks, pf \in Platforms, e \in ReminderEnvs }
    \cup { Call(t, pf, DefaultConfig, DefaultEnv) :
             t \in OtherTasks, pf \in Platforms }

\* the completion requests sent to the provider by the construction of the
\* executor (_test_ai_connection) and by the call (lines 304-311)
completion_calls(c) ==
    init_ai_client(c.config).completion_calls
    + (IF c.task.type = "ai" /\ c.task.prompt # <<>> /\ c.ai_client THEN 1 ELSE 0)

(***************************************************************************)
(* State                                                                   *)
(***************************************************************************)
VARIABLES
    now,          \* the clock, in check intervals
    engine,       \* the Engine's state: "created", "running" or "stopped"
    enabled,      \* Task Store: Task.enabled, per task id
    next_run_at,  \* Task Store: Task.next_run_at, per task id
    history,      \* Task Store: the TaskExecution rows, oldest first
    in_flight,    \* the Engine's single-flight guard: ids flagged in flight
    run_now_pc,   \* request thread: the task whose run_now passed the guard
    call,         \* the execute_task call under examination, <<>> if none
    returned,     \* what that call returned, <<>> if nothing yet
    execution,    \* the TaskExecution that call works on, <<>> before it has one
    process,      \* the server process: "up" or "exited"
    written,      \* the texts given to sys.stdout.write so far
    stdout,       \* the characters on the real standard output
    stderr,       \* the messages on standard error
    stdin,        \* the lines read from the real standard input so far
    lines,        \* what readline returned for each of them
    sources,      \* the configuration sources at process start, <<>> if none
    settings,     \* the configuration resolved from them, <<>> if not loaded
    schedule,     \* Task Store: Task.schedule, per task id
    host,         \* platform.system() of the host the reminders run on
    temp_file,    \* the content of %TEMP%\notification.hta, <<>> if absent
    reminder      \* per reminder execution: its step, what it showed, its result

stdio_vars == <<written, stdout, stderr, stdin, lines>>

config_vars == <<sources, settings>>

reminder_vars == <<host, temp_file, reminder>>

vars == <<now, engine, enabled, next_run_at, history, in_flight, run_now_pc,
          call, returned, execution, process, stdio_vars, config_vars,
          reminder_vars, schedule>>

engine_vars ==
    <<now, engine, enabled, next_run_at, history, in_flight, run_now_pc, schedule>>

(***************************************************************************)
(* Bounds                                                                  *)
(***************************************************************************)
\* the clock value at which the process starts
BootTime == 2

\* the clock stops advancing at BootTime + Horizon
Horizon == 1

\* at most this many TaskExecution rows are created
MaxExec == 3

(***************************************************************************)
(* Schedule Evaluator, Task Store                                          *)
(***************************************************************************)
TaskIds == {"t1", "t2"}

TaskOrder == <<"t1", "t2">>

\* the period of each task's cron schedule at start-up, in check intervals
Schedule == [t \in TaskIds |-> IF t = "t1" THEN 1 ELSE 2]

\* the persisted definition of each task
TaskOf(t) ==
    IF t = "t1"
    THEN [Task("shell_command") EXCEPT !.command = <<"t","r","u","e">>]
    ELSE [Task("ai") EXCEPT !.prompt = <<"h","i">>]

\* next_trigger(cron_expression, reference_time): the first point of the
\* schedule's grid strictly after the reference time
next_trigger(period, reference) == ((reference \div period) + 1) * period

\* a variant of IsDue that does not look at enabled
IsDue_any(t, as_of) == next_run_at[t] <= as_of

\* due_tasks(as_of): enabled tasks with next_run_at <= as_of
IsDue(t, as_of) == enabled[t] /\ next_run_at[t] <= as_of

\* ... ordered by next_run_at ascending
RECURSIVE SortDue(_)
SortDue(S) ==
    IF S = {} THEN <<>>
    ELSE LET first == CHOOSE t \in S :
                 \A u \in S : \/ next_run_at[t] < next_run_at[u]
                              \/ /\ next_run_at[t] = next_run_at[u]
                                 /\ \E i, j \in 1..Len(TaskOrder) :
                                        /\ TaskOrder[i] = t /\ TaskOrder[j] = u
                                        /\ i <= j
         IN  <<first>> \o SortDue(S \ {first})

due_tasks(as_of) == SortDue({t \in TaskIds : IsDue(t, as_of)})

\* record_execution_start(task_id): a row with status running.  The row also
\* notes what triggered it, for a scheduled trigger the next_run_at that
\* was due (-1 for run_now), and the schedule of the Task the execution
\* was dispatched with.
record_execution_start(t, kind, as_of) ==
    [task |-> t, kind |-> kind, start |-> as_of,
     due |-> IF kind = "scheduled" THEN next_run_at[t] ELSE -1,
     schedule |-> schedule[t],
     fate |-> "", status |-> "running"]

\* execution_history(task_id): the rows of the task, most recent first
RECURSIVE Reverse(_)
Reverse(s) == IF s = <<>> THEN <<>> ELSE Append(Reverse(Tail(s)), Head(s))

execution_history(t) == Reverse(SelectSeq(history, LAMBDA e : e.task = t))

(***************************************************************************)
(* What the host does with the action of an execution (its fate), noted in *)
(* the row when the execution completes                                    *)
(***************************************************************************)
Fates == {"ok", "fail"}

HostPlatform == "Linux"

FateEnv(fate) ==
    IF fate = "ok"
    THEN [DefaultEnv EXCEPT !.stdout = <<"o","k","\n">>,
                            !.ai.content = Some(<<"a","n","s","w","e","r">>)]
    ELSE [DefaultEnv EXCEPT !.timeout = TRUE, !.ai.kind = "timeout"]

(***************************************************************************)
(* Scheduler Engine: lifecycle and trigger loop (scheduler thread)         *)
(***************************************************************************)
\* the rows one scan appends: one per due task that is not in flight, in
\* due_tasks order
RECURSIVE Dispatched(_, _)
Dispatched(due, as_of) ==
    IF due = <<>> THEN <<>>
    ELSE (IF Head(due) \in in_flight THEN <<>>
          ELSE <<record_execution_start(Head(due), "scheduled", as_of)>>)
         \o Dispatched(Tail(due), as_of)

\* steps 1-3 of a tick at time as_of: due tasks that are not in flight are
\* flagged and dispatched; a due task that is in flight is skipped and its
\* next_run_at is advanced past this tick
Scan(as_of) ==
    LET due == due_tasks(as_of)
        rows == Dispatched(due, as_of)
        dueset == {due[i] : i \in 1..Len(due)}
    IN  /\ Len(history) + Len(rows) <= MaxExec
        /\ history' = history \o rows
        /\ in_flight' = in_flight \cup dueset
        /\ next_run_at' =
               [t \in TaskIds |->
                   IF t \in dueset /\ t \in in_flight
                   THEN next_trigger(schedule[t], as_of)
                   ELSE next_run_at[t]]

\* start(): the trigger loop begins, with its first tick at once
Start ==
    /\ engine = "created"
    /\ engine' = "running"
    /\ Scan(now)
    /\ UNCHANGED <<now, enabled, run_now_pc, call, returned, execution,
                   process, stdio_vars, config_vars, reminder_vars, schedule>>

\* the loop sleeps one check interval and ticks again
Tick ==
    /\ engine = "running"
    /\ now < BootTime + Horizon
    /\ now' = now + 1
    /\ Scan(now + 1)
    /\ UNCHANGED <<engine, enabled, run_now_pc, call, returned, execution,
                   process, stdio_vars, config_vars, reminder_vars, schedule>>

\* stop(): the loop ends; dispatched executions are left to finish
Stop ==
    /\ engine = "running"
    /\ engine' = "stopped"
    /\ UNCHANGED <<now, enabled, next_run_at, history, in_flight, run_now_pc,
                   call, returned, execution, process, stdio_vars, config_vars,
                   reminder_vars, schedule>>

\* a check interval passes while no trigger loop runs
Advance ==
    /\ engine # "running"
    /\ now < BootTime + Horizon
    /\ now' = now + 1
    /\ UNCHANGED <<engine, enabled, next_run_at, history, in_flight, run_now_pc,
                   call, returned, execution, process, stdio_vars, config_vars,
                   reminder_vars, schedule>>

\* what execute_task returns for each task under each fate
Outcome ==
    [t \in TaskIds, fate \in Fates |->
        execute_task(TaskOf(t), HostPlatform, TRUE, FateEnv(fate))]

\* completion of a dispatched execution (step 5): the terminal row,
\* next_run_at from the schedule of the Task the execution holds, relative to
\* the trigger time (scheduled triggers only: run_now does not alter
\* next_run_at), written with set_next_run(task_id, timestamp), the flag
\* cleared
CompletedRow(e, fate) ==
    [e EXCEPT !.fate = fate, !.status = Outcome[e.task, fate].status]

\* a variant of NextRunAfter that treats a manual run as a trigger
NextRunAfter_any(e) ==
    [next_run_at EXCEPT ![e.task] = next_trigger(e.schedule, e.start)]

NextRunAfter(e) ==
    IF e.kind = "scheduled"
    THEN [next_run_at EXCEPT ![e.task] = next_trigger(e.schedule, e.start)]
    ELSE next_run_at

Complete(i) ==
    /\ history[i].status = "running"
    /\ \E fate \in Fates :
         history' = [history EXCEPT ![i] = CompletedRow(history[i], fate)]
    /\ next_run_at' = NextRunAfter(history[i])
    /\ in_flight' = in_flight \ {history[i].task}
    /\ UNCHANGED <<now, engine, enabled, run_now_pc, call, returned,
                   execution, process, stdio_vars, config_vars, reminder_vars, schedule>>

(***************************************************************************)
(* Control Surface (request-handling thread, main.py line 336).  The       *)
(* scheduler runs in a thread of its own (main.py lines 321-326) and the   *)
(* two threads share the Engine's guard without a lock: reading the guard  *)
(* and flagging the task are two steps of run_now.                         *)
(***************************************************************************)
\* run_now, first step: the single-flight guard is read; a task in flight is
\* refused (nothing changes)
RunNowGuard(t) == t \notin in_flight

RunNowCheck(t) ==
    /\ run_now_pc = <<>>
    /\ RunNowGuard(t)
    /\ run_now_pc' = <<t>>
    /\ UNCHANGED <<now, engine, enabled, next_run_at, history, in_flight, call,
                   returned, execution, process, stdio_vars, config_vars,
                   reminder_vars, schedule>>

\* run_now, second step: the task is flagged and dispatched
RunNowDispatch ==
    /\ run_now_pc # <<>>
    /\ Len(history) < MaxExec
    /\ history' = Append(history,
                         record_execution_start(run_now_pc[1], "manual", now))
    /\ in_flight' = in_flight \cup {run_now_pc[1]}
    /\ run_now_pc' = <<>>
    /\ UNCHANGED <<now, engine, enabled, next_run_at, call, returned,
                   execution, process, stdio_vars, config_vars, reminder_vars, schedule>>

\* update_task(id, {enabled}): next_run_at is recomputed when enabled changes.
\* The request thread serves it before or after a run_now, not inside one.
SetEnabled(t, value) ==
    /\ run_now_pc = <<>>
    /\ enabled[t] # value
    /\ enabled' = [enabled EXCEPT ![t] = value]
    /\ next_run_at' = [next_run_at EXCEPT ![t] = next_trigger(schedule[t], now)]
    /\ UNCHANGED <<now, engine, history, in_flight, run_now_pc, call,
                   returned, execution, process, stdio_vars, config_vars,
                   reminder_vars, schedule>>

disable_task(t) == SetEnabled(t, FALSE)

enable_task(t) == SetEnabled(t, TRUE)

\* the schedules a request may give a task
Periods == {1, 2}

\* update_task(id, {schedule}): one store operation; next_run_at is
\* recomputed from the new schedule
update_task(t, period) ==
    /\ run_now_pc = <<>>
    /\ schedule[t] # period
    /\ schedule' = [schedule EXCEPT ![t] = period]
    /\ next_run_at' = [next_run_at EXCEPT ![t] = next_trigger(period, now)]
    /\ UNCHANGED <<now, engine, enabled, history, in_flight, run_now_pc, call,
                   returned, execution, process, stdio_vars, config_vars, reminder_vars>>

(***************************************************************************)
(* Specification of the engine                                             *)
(***************************************************************************)
\* the persisted next_run_at values a starting process finds: the task was
\* last due at 0 and missed every trigger since, or it is next due after the
\* start
Persisted(t) == {0, next_trigger(Schedule[t], BootTime)}

\* the server process is up; its standard streams and its configuration are
\* not under examination
Unused ==
    /\ process = "up"
    /\ written = <<>>
    /\ stdout = <<>>
    /\ stderr = <<>>
    /\ stdin = <<>>
    /\ lines = <<>>
    /\ sources = <<>>
    /\ settings = <<>>
    /\ host = HostPlatform
    /\ temp_file = <<>>
    /\ reminder = <<>>

Init ==
    /\ now = BootTime
    /\ engine = "created"
    /\ enabled = [t \in TaskIds |-> TRUE]
    /\ next_run_at \in {f \in [TaskIds -> 0..next_trigger(BootTime, BootTime)] :
                          \A t \in TaskIds : f[t] \in Persisted(t)}
    /\ history = <<>>
    /\ in_flight = {}
    /\ run_now_pc = <<>>
    /\ call = <<>>
    /\ returned = <<>>
    /\ execution = <<>>
    /\ schedule = Schedule
    /\ Unused

Next ==
    \/ Start
    \/ Stop
    \/ Advance
    \/ Tick
    \/ \E i \in 1..Len(history) : Complete(i)
    \/ \E t \in TaskIds : RunNowCheck(t)
    \/ RunNowDispatch
    \/ \E t \in TaskIds : disable_task(t)
    \/ \E t \in TaskIds : enable_task(t)

Spec == Init /\ [][Next]_vars

\* the engine with requests that change a task's schedule
SpecUpdate ==
    Init /\ [][Next \/ \E t \in TaskIds, period \in Periods : update_task(t, period)]_vars

(***************************************************************************)
(* Specification of the executor: execute_task applied to each call        *)
(***************************************************************************)
\* the process right after start-up, nothing dispatched and nothing examined
Idle ==
    /\ now = BootTime
    /\ engine = "created"
    /\ enabled = [t \in TaskIds |-> TRUE]
    /\ next_run_at = [t \in TaskIds |-> next_trigger(Schedule[t], BootTime)]
    /\ history = <<>>
    /\ in_flight = {}
    /\ run_now_pc = <<>>
    /\ call = <<>>
    /\ returned = <<>>
    /\ execution = <<>>
    /\ schedule = Schedule
    /\ Unused

InitExec ==
    /\ now = BootTime
    /\ engine = "created"
    /\ enabled = [t \in TaskIds |-> TRUE]
    /\ next_run_at = [t \in TaskIds |-> next_trigger(Schedule[t], BootTime)]
    /\ history = <<>>
    /\ in_flight = {}
    /\ run_now_pc = <<>>
    /\ call \in {<<c>> : c \in Calls}
    /\ returned = <<>>
    /\ execution = <<>>
    /\ schedule = Schedule
    /\ Unused

\* execute_task, line 100: the call constructs its TaskExecution
Construct ==
    /\ call # <<>>
    /\ execution = <<>>
    /\ execution' = <<TaskExecution>>
    /\ UNCHANGED <<engine_vars, call, returned, process, stdio_vars,
                   config_vars, reminder_vars>>

\* execute_task, lines 102-157: the action is awaited and its result is set
\* on the TaskExecution, which is returned
Execute ==
    /\ execution # <<>>
    /\ returned = <<>>
    /\ returned' = <<execute_task(call[1].task, call[1].platform,
                                  call[1].ai_client, call[1].env),
                     completion_calls(call[1]),
                     process_after(call[1].task.command, call[1].platform,
                                   call[1].env)>>
    /\ execution' = <<returned'[1]>>
    /\ UNCHANGED <<engine_vars, call, process, stdio_vars, config_vars, reminder_vars>>

SpecExec == InitExec /\ [][Construct \/ Execute]_vars

(***************************************************************************)
(* Properties of the executor (checked under SpecExec)                     *)
(***************************************************************************)
Returned == returned # <<>>

\* a field of a TaskExecution is populated when it is not None
Populated(o) == o # None

\* C3: execute_task returns, for every task type and every outcome of the
\* type-specific action, a TaskExecution whose status is completed or failed,
\* and no exception escapes to the caller.
C3_TerminalStatus ==
    Returned => /\ returned[1].status \in {"completed", "failed"}
                /\ ~returned[1].raised

\* C3 witness: an action raised an exception it does not catch itself (the
\* HTTP layer, inside _execute_api_call) and execute_task returned failed.
C3_Witness ==
    /\ Returned
    /\ call[1].task.type = "api_call"
    /\ call[1].task.api_url # <<>>
    /\ call[1].env.http.kind = "exception"
    /\ returned[1].status = "failed"

\* C4: every TaskExecution execute_task returns has exactly one of output and
\* error populated: output and no error when completed, error and no output
\* when failed, also when the action succeeds with an empty result.
C4_ExactlyOnePopulated ==
    Returned =>
        /\ returned[1].status = "completed" =>
               Populated(returned[1].output) /\ ~Populated(returned[1].error)
        /\ returned[1].status = "failed" =>
               Populated(returned[1].error) /\ ~Populated(returned[1].output)

\* the text "exit code N"
ExitCodeText(n) == <<"e","x","i","t"," ","c","o","d","e"," ">> \o NumStr(n)

\* the command is one a command interpreter can run: "exit N", or a
\* well-quoted command line whose program is on the host
Runnable(command, env) ==
    \/ IsExitCommand(command)
    \/ /\ shlex_split(command).ok
       /\ shlex_split(command).args # <<>>
       /\ shlex_split(command).args[1] \in HostBinaries(env)

\* C10: a shell_command whose command terminates with a nonzero exit code N
\* yields a failed TaskExecution whose error contains "exit code N" and the
\* captured stderr, on every platform and in either execution mode.
C10_ExitCodeReported ==
    (/\ Returned
     /\ call[1].task.type = "shell_command"
     /\ Runnable(call[1].task.command, call[1].env)
     /\ ~call[1].env.timeout
     /\ Decodable(call[1].env.stderr)
     /\ returncode(call[1].task.command, call[1].env) # 0)
    => /\ returned[1].status = "failed"
       /\ Contains(returned[1].error[1],
                   ExitCodeText(returncode(call[1].task.command, call[1].env)))
       /\ Contains(returned[1].error[1], call[1].env.stderr)

(***************************************************************************)
(* Properties of the engine (checked under Spec)                           *)
(***************************************************************************)
Rows == 1..Len(history)

Running(t) == {i \in Rows : history[i].task = t /\ history[i].status = "running"}

\* the rows a step appends
NewRows(t) ==
    {i \in (Len(history) + 1)..Len(history') : history'[i].task = t}

\* a step in which the trigger loop scans for due tasks
ScanStep == Start \/ Tick

\* the time such a step scans at
ScanTime == now'

\* C1: at most one execution of a task has status running at any instant,
\* under any interleaving of the scheduler thread's ticks with run_now
\* requests of the request-handling thread.
C1_SingleFlight == \A t \in TaskIds : Cardinality(Running(t)) <= 1

\* no two rows were dispatched for the same due trigger of a task
NoDuplicateDispatch ==
    \A i, j \in Rows :
        (/\ i < j
         /\ history[i].kind = "scheduled" /\ history[j].kind = "scheduled"
         /\ history[i].task = history[j].task)
        => history[i].due # history[j].due

\* C2: a tick creates exactly one TaskExecution for every enabled task that
\* is due and not in flight, and no due trigger is dispatched twice.
C2_OnePerDueTrigger ==
    [][/\ ScanStep =>
            \A t \in TaskIds :
                (IsDue(t, ScanTime) /\ t \notin in_flight) =>
                    /\ Cardinality(NewRows(t)) = 1
                    /\ \A i \in NewRows(t) :
                           /\ history'[i].kind = "scheduled"
                           /\ history'[i].due = next_run_at[t]
       /\ NoDuplicateDispatch']_vars

\* C6: when a task dispatched at an earlier tick is still running at a tick
\* at which it is due again, that tick starts no new execution of it and
\* leaves its next_run_at strictly later than the tick's time.
C6_SkipAndAdvance ==
    [][ScanStep =>
          \A t \in TaskIds :
              (/\ IsDue(t, ScanTime)
               /\ \E i \in Running(t) : /\ history[i].kind = "scheduled"
                                        /\ history[i].start < ScanTime)
              => /\ NewRows(t) = {}
                 /\ next_run_at'[t] > ScanTime]_vars

\* the rows fired for triggers a task missed while the process was down
CatchUpRows(t) ==
    {i \in Rows : /\ history[i].task = t
                  /\ history[i].kind = "scheduled"
                  /\ history[i].due < BootTime}

\* C9: a task whose persisted next_run_at lies in the past at startup is fired
\* once for the whole missed span, and once that execution has completed its
\* next_run_at is later than the time of the catch-up.
C9_CatchUpOnce ==
    \A t \in TaskIds :
        /\ Cardinality(CatchUpRows(t)) <= 1
        /\ \A i \in CatchUpRows(t) :
               history[i].status # "running" => next_run_at[t] > history[i].start

\* the step completes row i with a failure of the Executor
FailsAt(i) == history[i].status = "running" /\ history'[i].fate = "fail"

\* C5: a failure of the Executor ends only its own execution: the row is
\* recorded as failed, the task stays enabled, the trigger loop keeps
\* running, no retry is started, next_run_at is computed as for a success,
\* and every due task of a later tick is still dispatched.
C5_FailureAbsorbed ==
    [][/\ \A i \in Rows :
            FailsAt(i) =>
                /\ history'[i].status = "failed"
                /\ Len(history') = Len(history)
                /\ \A j \in Rows \ {i} : history'[j] = history[j]
                /\ enabled' = enabled
                /\ engine' = engine
                /\ next_run_at' =
                       [t \in TaskIds |->
                           IF t = history[i].task /\ history[i].kind = "scheduled"
                           THEN next_trigger(Schedule[t], history[i].start)
                           ELSE next_run_at[t]]
       /\ (ScanStep /\ \E i \in Rows : history[i].status = "failed") =>
              \A t \in TaskIds :
                  (IsDue(t, ScanTime) /\ t \notin in_flight) => NewRows(t) # {}]_vars

\* C5 witness: a scheduled execution failed, its task is still enabled, and a
\* later tick dispatched the task again for a later trigger while another
\* task was dispatched too.
C5_Witness ==
    \E i, j \in Rows :
        /\ i < j
        /\ history[i].status = "failed"
        /\ history[i].kind = "scheduled"
        /\ history[j].task = history[i].task
        /\ history[j].kind = "scheduled"
        /\ history[j].due > history[i].start
        /\ enabled[history[i].task]
        /\ engine = "running"

\* the step belongs to a run_now: its guard check, its dispatch, or the
\* completion of the execution it started
RunNowStep ==
    \/ \E t \in TaskIds : RunNowCheck(t)
    \/ RunNowDispatch
    \/ \E i \in Rows : history[i].kind = "manual" /\ Complete(i)

\* C7: run_now leaves the task's next_run_at as it was, however many times it
\* is called, so the pending scheduled trigger fires at its computed time.
C7_RunNowKeepsSchedule == [][RunNowStep => next_run_at' = next_run_at]_vars

\* C7 witness: two manual runs of a task have ended and the task's scheduled
\* trigger, pending since the start, then fired at its time.
C7_Witness ==
    \E i, j, k \in Rows :
        /\ i < j /\ j < k
        /\ history[i].task = history[k].task /\ history[j].task = history[k].task
        /\ history[i].kind = "manual" /\ history[i].status # "running"
        /\ history[j].kind = "manual" /\ history[j].status # "running"
        /\ history[k].kind = "scheduled"
        /\ history[k].due = BootTime + 1
        /\ history[k].start = BootTime + 1

\* what identifies a row: everything but its outcome
RowIds(rows) ==
    [i \in 1..Len(rows) |-> <<rows[i].task, rows[i].kind, rows[i].start, rows[i].due>>]

\* C8: a disabled task is not due at any time and no tick dispatches it, and
\* every execution record that existed stays in execution_history.
C8_DisabledNeverFires ==
    [][\A t \in TaskIds :
          /\ ~enabled[t] =>
                 /\ \A as_of \in 0..(BootTime + Horizon) : ~IsDue(t, as_of)
                 /\ ScanStep => NewRows(t) = {}
          /\ Len(execution_history(t)') >= Len(execution_history(t))
          /\ SubSeq(RowIds(execution_history(t)'),
                    Len(execution_history(t)') - Len(execution_history(t)) + 1,
                    Len(execution_history(t)'))
                 = RowIds(execution_history(t))]_vars

\* C8 witness: a task with an execution record was disabled and a tick ran at
\* a time the task's next_run_at had reached.
C8_Witness ==
    \E t \in TaskIds :
        /\ ~enabled[t]
        /\ execution_history(t) # <<>>
        /\ engine = "running"
        /\ now > BootTime
        /\ next_run_at[t] <= now

\* the call is an api_call with a URL and the endpoint answered
ApiAnswered ==
    /\ Returned
    /\ call[1].task.type = "api_call"
    /\ call[1].task.api_url # <<>>
    /\ call[1].env.http.kind = "response"

\* C11: an api_call is completed with the response body as output exactly
\* when the HTTP status is below 400; for a status of 400 or above it is
\* failed with an error that contains the status code and the response body.
C11_ApiStatus ==
    ApiAnswered =>
        /\ call[1].env.http.status < 400 =>
               /\ returned[1].status = "completed"
               /\ returned[1].output = Some(call[1].env.http.text)
               /\ returned[1].error = None
        /\ call[1].env.http.status >= 400 =>
               /\ returned[1].status = "failed"
               /\ returned[1].output = None
               /\ Contains(returned[1].error[1], NumStr(call[1].env.http.status))
               /\ Contains(returned[1].error[1], call[1].env.http.text)

\* C11 witness: the endpoint answered 404 with body "not found" and the
\* execution failed.
C11_Witness ==
    /\ ApiAnswered
    /\ call[1].env.http.status = 404
    /\ call[1].env.http.text = <<"n","o","t"," ","f","o","u","n","d">>
    /\ returned[1].status = "failed"

\* the call is an ai task given to an executor built from this configuration
AiCall == Returned /\ call[1].task.type = "ai"

NoClientText ==
    <<"N","o"," ","A","I"," ","c","l","i","e","n","t"," ","c","o","n","f","i","g","u","r","e","d"," ","f","o","r"," ","A","I"," ","t","a","s","k","s">>

\* the configuration gives no key for the provider it selects
NoKeyGiven(config) ==
    config \in { ConfigWith(p, k) : p \in Providers, k \in {"default", Some(<<>>)} }

\* C12 as stated: when no provider credentials are configured, the executor
\* holds no AI client, an ai task fails with "No AI client configured for AI
\* tasks", and no completion request is sent at construction or execution.
C12_NoCredentials ==
    (AiCall /\ call[1].task.prompt # <<>> /\ NoKeyGiven(call[1].config)) =>
        /\ ~call[1].ai_client
        /\ returned[1].status = "failed"
        /\ returned[1].error = Some(NoClientText)
        /\ returned[2] = 0

\* C12 amended: when the API key that get_ai_config resolves for the selected
\* provider is empty (the local provider's key defaults to "ollama"), the
\* executor holds no AI client, an ai task with a prompt fails with "No AI
\* client configured for AI tasks", and no completion request is sent at
\* construction or execution.
C12_NoApiKey ==
    (/\ AiCall
     /\ call[1].task.prompt # <<>>
     /\ ~Truthy(get_ai_config(call[1].config).api_key))
    => /\ ~call[1].ai_client
       /\ returned[1].status = "failed"
       /\ returned[1].error = Some(NoClientText)
       /\ returned[2] = 0

\* C12 witness: an ai task with a prompt, run by an executor configured for
\* openai with no key, on a host whose provider would have answered.
C12_Witness ==
    /\ AiCall
    /\ call[1].task.prompt # <<>>
    /\ call[1].config = DefaultConfig
    /\ call[1].env.ai.kind = "content"
    /\ call[1].env.ai.content = Some(<<"a","n","s","w","e","r">>)
    /\ returned[1].status = "failed"

\* the host has none of the notification tools the platform's branch uses,
\* so that a shell asked to run one ends with a nonzero status (on Windows the
\* branch uses mshta and rundll32, which the modelled hosts have)
NoMechanism(platform, env) ==
    CASE platform = "Darwin" -> osascript \notin env.tools /\ env.rc # 0
      [] platform = "Linux" -> env.tools \cap {notify_send, zenity, xmessage} = {}
      [] OTHER -> FALSE

\* C13: a reminder with a message on a host where no notification mechanism
\* is available, whatever the platform, yields a failed TaskExecution whose
\* error names the host platform.
C13_NamesPlatform ==
    (/\ Returned
     /\ call[1].task.type = "reminder"
     /\ call[1].task.reminder_message # <<>>
     /\ NoMechanism(call[1].platform, call[1].env))
    => /\ returned[1].status = "failed"
       /\ Contains(returned[1].error[1], PlatformName(call[1].platform))

\* the command contains a pipe or redirection operator
HasPipeOrRedirect(command) ==
    \E i \in 1..Len(command) : command[i] \in {"|", ">", "<"}

\* the command begins with one of the known shell-builtin keywords
BeginsWithBuiltin(command) ==
    \E k \in 1..Len(shell_commands) :
        IsPrefix(shell_commands[k], Lower(Strip(command)))

\* C14: a shell_command is run in shell-interpreted mode exactly when the
\* command contains a pipe or redirection operator or begins with a known
\* shell-builtin keyword, and by direct execution otherwise, on every
\* platform.
C14_ShellModeExactly ==
    (/\ Returned
     /\ call[1].task.type = "shell_command"
     /\ call[1].task.command # <<>>)
    => (use_shell(call[1].task.command, call[1].platform)
          <=> (\/ HasPipeOrRedirect(call[1].task.command)
               \/ BeginsWithBuiltin(call[1].task.command)))

\* the action of the call was started and cut off at its timeout
TimedOut ==
    /\ Returned
    /\ \/ /\ call[1].task.type = "shell_command"
          /\ spawned(call[1].task.command, call[1].platform, call[1].env)
          /\ expires(call[1].env.duration, shell_timeout(call[1].config))
       \/ /\ call[1].task.type = "api_call"
          /\ call[1].task.api_url # <<>>
          /\ call[1].env.http.kind = "timeout"
       \/ /\ call[1].task.type = "ai"
          /\ call[1].task.prompt # <<>>
          /\ call[1].ai_client
          /\ call[1].env.ai.kind = "timeout"

SecondsText(n) == NumStr(n) \o <<" ","s","e","c","o","n","d","s">>

\* C15: an execution whose action exceeds its timeout ends as a failed
\* TaskExecution, with no exception escaping, for shell_command, api_call and
\* ai tasks; for shell_command the spawned process is killed and the error
\* states the timeout in seconds.
C15_TimeoutIsFailure ==
    TimedOut =>
        /\ returned[1].status = "failed"
        /\ ~returned[1].raised
        /\ Populated(returned[1].error)
        /\ call[1].task.type = "shell_command" =>
               /\ returned[3] = "killed"
               /\ Contains(returned[1].error[1],
                           SecondsText(call[1].config.execution_timeout))

\* C15 witness: a command that runs 20 seconds under an execution timeout of
\* 10 seconds was cut off, killed and recorded as failed.
C15_Witness ==
    /\ TimedOut
    /\ call[1].task.type = "shell_command"
    /\ call[1].env.duration = 20
    /\ call[1].config.execution_timeout = 10
    /\ returned[1].status = "failed"
    /\ returned[3] = "killed"

\* the execution ended with the timeout error of its task type
TimeoutReported ==
    \/ /\ call[1].task.type = "shell_command"
       /\ Contains(returned[1].error[1],
                   <<"C","o","m","m","a","n","d"," ","t","i","m","e","d"," ","o","u","t">>)
    \/ /\ call[1].task.type = "api_call"
       /\ Contains(returned[1].error[1],
                   <<"A","P","I"," ","c","a","l","l"," ","t","i","m","e","d"," ","o","u","t">>)
    \/ /\ call[1].task.type = "ai"
       /\ returned[1].error =
              Some(<<"A","I"," ","A","P","I"," ","c","a","l","l"," ","t","i","m","e","d"," ","o","u","t">>)

\* the action of the call was started and nothing but a timeout can fail it
Started ==
    /\ Returned
    /\ \/ /\ call[1].task.type = "shell_command"
          /\ spawned(call[1].task.command, call[1].platform, call[1].env)
       \/ /\ call[1].task.type = "api_call"
          /\ call[1].task.api_url # <<>>
          /\ call[1].env.http.kind \in {"response", "timeout"}
       \/ /\ call[1].task.type = "ai"
          /\ call[1].task.prompt # <<>>
          /\ call[1].ai_client
          /\ call[1].env.ai.kind \in {"content", "timeout"}

\* C16: an ai task is cut off after the fixed 30 seconds for every value of
\* the configured execution timeout, while shell_command and api_call
\* executions are cut off after the configured execution timeout.
C16_TimeoutApplied ==
    Started =>
        /\ call[1].task.type = "ai" =>
               ((returned[1].status = "failed" /\ TimeoutReported)
                    <=> call[1].env.duration > 30)
        /\ call[1].task.type \in {"shell_command", "api_call"} =>
               ((returned[1].status = "failed" /\ TimeoutReported)
                    <=> call[1].env.duration > call[1].config.execution_timeout)

\* C16 witness: under an execution timeout of 10 seconds an ai task whose
\* provider took 20 seconds was not cut off.
C16_Witness ==
    /\ Started
    /\ call[1].task.type = "ai"
    /\ call[1].config.execution_timeout = 10
    /\ call[1].env.duration = 20
    /\ call[1].env.ai.content = Some(<<"a","n","s","w","e","r">>)
    /\ returned[1].status = "completed"

(***************************************************************************)
(* Shutdown (main.py:61-73).  Dispatched executions run in the scheduler   *)
(* thread, a daemon thread (main.py:321-326): they end with the process.   *)
(***************************************************************************)
\* handle_sigterm: scheduler.stop(), then sys.exit(0); what was dispatched
\* and has not completed is left as it is
Sigterm ==
    /\ process = "up"
    /\ engine' = IF engine = "running" THEN "stopped" ELSE engine
    /\ process' = "exited"
    /\ UNCHANGED <<now, enabled, next_run_at, history, in_flight, run_now_pc,
                   call, returned, execution, stdio_vars, config_vars,
                   reminder_vars, schedule>>

\* the process while it is up, or the signal that ends it
NextStop ==
    \/ process = "up" /\ Next
    \/ Sigterm

\* an execution that was dispatched reaches its end unless the process ends:
\* every execution runs under a timeout (executor.py:208-212, 253, 305-311)
Finish == process = "up" /\ \E i \in 1..Len(history) : Complete(i)

SpecStop == Init /\ [][NextStop]_vars /\ WF_vars(Finish)

(***************************************************************************)
(* json.loads (the standard library's reader, as used at main.py:123)      *)
(*                                                                         *)
(* A reader returns the index after what it read, 0 when it fails.         *)
(* \u escapes are read as any other escape letter.                         *)
(***************************************************************************)
At(s, i) == IF i \in 1..Len(s) THEN s[i] ELSE ""

Digits == {Digit(d) : d \in 0..9}

\* the first index from i on that holds no white space
SkipWs(s, i) ==
    IF i > Len(s) THEN i
    ELSE CHOOSE j \in i..(Len(s) + 1) :
             /\ j = Len(s) + 1 \/ ~IsSpace(s[j])
             /\ \A k \in i..(j - 1) : IsSpace(s[k])

\* the first index from i on that holds no digit
DigitsEnd(s, i) ==
    IF i > Len(s) THEN i
    ELSE CHOOSE j \in i..(Len(s) + 1) :
             /\ j = Len(s) + 1 \/ s[j] \notin Digits
             /\ \A k \in i..(j - 1) : s[k] \in Digits

\* the number of backslashes right before index j, not reaching index i
Backslashes(s, i, j) ==
    CHOOSE n \in 0..(j - 1 - i) :
        /\ \A k \in (j - n)..(j - 1) : s[k] = "\\"
        /\ j - n - 1 = i \/ s[j - n - 1] # "\\"

\* the closing quotes of the string that opens at index i
JsonQuotes(s, i) ==
    {j \in (i + 1)..Len(s) : s[j] = "\"" /\ Backslashes(s, i, j) % 2 = 0}

\* a string body: no control character, every escape a known one
JsonStringBody(s, i, j) ==
    \A k \in (i + 1)..(j - 1) :
        /\ s[k] \notin {"\n", "\t", "\r"}
        /\ (s[k] = "\\" /\ Backslashes(s, i, k) % 2 = 0) => s[k + 1] \in
               {"\"", "\\", "/", "b", "f", "n", "r", "t", "u"}

JsonString(s, i) ==
    IF At(s, i) # "\"" \/ JsonQuotes(s, i) = {} THEN 0
    ELSE LET j == CHOOSE q \in JsonQuotes(s, i) : \A r \in JsonQuotes(s, i) : q <= r
         IN  IF JsonStringBody(s, i, j) THEN j + 1 ELSE 0

JsonNumber(s, i) ==
    LET first == IF At(s, i) = "-" THEN i + 1 ELSE i
        whole == IF At(s, first) = "0" THEN first + 1 ELSE DigitsEnd(s, first)
        fraction == IF At(s, whole) = "." /\ DigitsEnd(s, whole + 1) > whole + 1
                    THEN DigitsEnd(s, whole + 1) ELSE whole
        exponent == IF At(s, fraction + 1) \in {"+", "-"}
                    THEN fraction + 2 ELSE fraction + 1
    IN  IF whole = first THEN 0
        ELSE IF At(s, fraction) \in {"e", "E"} /\ DigitsEnd(s, exponent) > exponent
        THEN DigitsEnd(s, exponent)
        ELSE fraction

JsonWord(s, i) ==
    LET known ==
            {<<"t","r","u","e">>, <<"f","a","l","s","e">>, <<"n","u","l","l">>,
            <<"N","a","N">>, <<"I","n","f","i","n","i","t","y">>,
            <<"-","I","n","f","i","n","i","t","y">>}
        words == {w \in known : i + Len(w) - 1 <= Len(s)
                                    /\ SubSeq(s, i, i + Len(w) - 1) = w}
    IN  IF words = {} THEN 0 ELSE i + Len(CHOOSE w \in words : TRUE)

RECURSIVE JsonValue(_, _), JsonMembers(_, _), JsonElements(_, _)
\* a value that starts at index i
JsonValue(s, i) ==
    CASE At(s, i) = "{" ->
           IF At(s, SkipWs(s, i + 1)) = "}" THEN SkipWs(s, i + 1) + 1
           ELSE JsonMembers(s, SkipWs(s, i + 1))
      [] At(s, i) = "[" ->
           IF At(s, SkipWs(s, i + 1)) = "]" THEN SkipWs(s, i + 1) + 1
           ELSE JsonElements(s, SkipWs(s, i + 1))
      [] At(s, i) = "\"" -> JsonString(s, i)
      [] OTHER -> IF JsonWord(s, i) # 0 THEN JsonWord(s, i) ELSE JsonNumber(s, i)

\* the members of an object from index i on, up to and including its "}"
JsonMembers(s, i) ==
    IF JsonString(s, i) = 0 THEN 0
    ELSE LET colon == SkipWs(s, JsonString(s, i))
         IN  IF At(s, colon) # ":" THEN 0
             ELSE LET after == JsonValue(s, SkipWs(s, colon + 1))
                  IN  IF after = 0 THEN 0
                      ELSE IF At(s, SkipWs(s, after)) = ","
                           THEN JsonMembers(s, SkipWs(s, SkipWs(s, after) + 1))
                      ELSE IF At(s, SkipWs(s, after)) = "}"
                           THEN SkipWs(s, after) + 1
                      ELSE 0

\* the elements of an array from index i on, up to and including its "]"
JsonElements(s, i) ==
    LET after == JsonValue(s, i)
    IN  IF after = 0 THEN 0
        ELSE IF At(s, SkipWs(s, after)) = ","
             THEN JsonElements(s, SkipWs(s, SkipWs(s, after) + 1))
        ELSE IF At(s, SkipWs(s, after)) = "]"
             THEN SkipWs(s, after) + 1
        ELSE 0

\* json.loads(s) returns a value (TRUE) or raises JSONDecodeError (FALSE)
json_loads(s) ==
    LET after == JsonValue(s, SkipWs(s, 1))
    IN  after # 0 /\ SkipWs(s, after) = Len(s) + 1

(***************************************************************************)
(* The standard streams under the stdio transport (main.py)                *)
(***************************************************************************)
\* data[:n]
Take(s, n) == SubSeq(s, 1, IF n < Len(s) THEN n ELSE Len(s))

LooksLikeJson(s) == IsPrefix(<<"{">>, s) \/ IsPrefix(<<"[">>, s)

\* JSONRPCStdout.write(data): what goes to the real stdout and to stderr
JSONRPCStdout_write(data) ==
    IF data # <<>> /\ Strip(data) # <<>>
    THEN IF LooksLikeJson(Strip(data))
         THEN [stdout |-> data, stderr |-> <<>>]
         ELSE [stdout |-> <<>>,
               stderr |-> <<<<"A","t","t","e","m","p","t","e","d"," ","t","o"," ","w","r","i",
                           "t","e"," ","n","o","n","-","J","S","O","N"," ","t","o"," ","s",
                           "t","d","o","u","t",":"," ">>
                           \o Take(data, 100) \o <<"\n">>>>]
    ELSE [stdout |-> <<>>, stderr |-> <<>>]

\* re.search(r'"id"\s*:\s*(\d+)', s): the places where the pattern matches
IdDigits(s, p) == SkipWs(s, SkipWs(s, p + 4) + 1)

IdMatches(s) ==
    {p \in 1..Len(s) :
        /\ p + 3 <= Len(s)
        /\ SubSeq(s, p, p + 3) = <<"\"", "i", "d", "\"">>
        /\ At(s, SkipWs(s, p + 4)) = ":"
        /\ DigitsEnd(s, IdDigits(s, p)) > IdDigits(s, p)}

\* group(1) of the leftmost match, None without a match
id_match(s) ==
    IF IdMatches(s) = {} THEN None
    ELSE LET p == CHOOSE q \in IdMatches(s) : \A r \in IdMatches(s) : q <= r
         IN  Some(SubSeq(s, IdDigits(s, p), DigitsEnd(s, IdDigits(s, p)) - 1))

\* the object returned in place of a line that json.loads rejects
ParseError(id) ==
    <<"{","\"","j","s","o","n","r","p","c","\"",":","\"","2",".","0",
      "\"",",","\"","i","d","\"",":">>
    \o id \o
    <<",","\"","e","r","r","o","r","\"",":","{","\"","c","o","d","e",
      "\"",":","-","3","2","7","0","0",",","\"","m","e","s","s","a","g",
      "e","\"",":","\"","P","a","r","s","e"," ","e","r","r","o","r",
      "\"","}","}","\n">>

\* the lines readline skips without reading them as JSON
Skipped(stripped_line) ==
    \/ IsPrefix(<<"D", ":", "/">>, stripped_line)
    \/ IsPrefix(<<"C", ":", "/">>, stripped_line)
    \/ IsPrefix(<<"/">>, stripped_line)
    \/ Contains(stripped_line, <<".", "p", "y">>)
    \/ Contains(stripped_line, <<".", "v", "e", "n", "v">>)
    \/ ~LooksLikeJson(stripped_line)

\* SafeJsonStdin.readline(), given the line the real stdin returned: the
\* line handed to the reader and what is logged.  re.search does not raise
\* on a string, so the -32603 fallback is never taken.
SafeJsonStdin_readline(line) ==
    IF line = <<>> THEN [line |-> line, log |-> <<>>]
    ELSE IF Skipped(Strip(line))
    THEN [line |-> <<"\n">>,
          log |-> <<<<"S","k","i","p","p","i","n","g"," ","n","o","n","-","J","S","O",
                    "N"," ","i","n","p","u","t",":"," ">>
                    \o Take(Strip(line), 100) \o <<".", ".", ".">>>>]
    ELSE IF json_loads(Strip(line)) THEN [line |-> line, log |-> <<>>]
    ELSE [line |-> ParseError(IF id_match(Strip(line)) # None
                              THEN id_match(Strip(line))[1]
                              ELSE <<"n", "u", "l", "l">>),
          log |-> <<<<"F","i","x","i","n","g"," ","m","a","l","f","o","r","m","e","d",
                    " ","J","S","O","N"," ","i","n","p","u","t",":"," ">>>>]

\* the texts the process writes to sys.stdout
Texts ==
    {<<"{","\"","a","\"",":","1","}">>,
     <<"\n">>,
     <<"[","1","]">>,
     <<"h","e","l","l","o">>,
     <<"[","I","N","F","O","]"," ","u","p">>,
     <<"{","\"","a","\"",":">>,
     <<"1","}">>}

\* the lines the real stdin delivers, the last one being end of file
InputLines ==
    {<<"{","\"","i","d","\"",":","1","}","\n">>,
     <<"{","\"","i","d","\"",":","7",",","\n">>,
     <<"{","b","a","d","\n">>,
     <<"h","e","l","l","o","\n">>,
     <<"/","u","s","r","/","x","\n">>,
     <<"{","\"","f","\"",":","\"","a",".","p","y","\"","}","\n">>,
     <<"[","1","\n">>,
     <<"{","\"","p","\"",":","{","\"","i","d","\"",":","3","}",",","\"","i","d","\"",":","7",",","\n">>,
     <<>>}

\* how many writes and how many reads are followed
MaxWrites == 2

MaxReads == 2

\* sys.stdout.write(data) under the stdio transport
Write ==
    /\ Len(written) < MaxWrites
    /\ \E data \in Texts :
          /\ written' = Append(written, data)
          /\ stdout' = stdout \o JSONRPCStdout_write(data).stdout
          /\ stderr' = stderr \o JSONRPCStdout_write(data).stderr
    /\ UNCHANGED <<engine_vars, call, returned, execution, process, stdin,
                   lines, config_vars, reminder_vars>>

\* sys.stdin.readline() with the SafeJsonStdin wrapper installed
ReadLine ==
    /\ Len(stdin) < MaxReads
    /\ \E line \in InputLines :
          /\ stdin' = Append(stdin, line)
          /\ lines' = Append(lines, SafeJsonStdin_readline(line).line)
          /\ stderr' = stderr \o SafeJsonStdin_readline(line).log
    /\ UNCHANGED <<engine_vars, call, returned, execution, process, written,
                   stdout, config_vars, reminder_vars>>

SpecStdio == Idle /\ [][Write \/ ReadLine]_vars

(***************************************************************************)
(* Configuration at process start (config.py, main.py:236-293)             *)
(*                                                                         *)
(* Two settings are followed: log_level, whose flag --log-level is copied  *)
(* to the variable the field reads, and server_port, whose flag --port is  *)
(* copied to MCP_SCHEDULER_PORT while the field reads                      *)
(* MCP_SCHEDULER_SERVER_PORT.  An absent value is None.                    *)
(***************************************************************************)
Fields == {"log_level", "server_port"}

\* the Field(default=...) of each setting
Defaults == [log_level |-> "INFO", server_port |-> "8080"]

\* env_prefix + field name: the variable a field is read from
env_name(field) ==
    CASE field = "log_level" -> "MCP_SCHEDULER_LOG_LEVEL"
      [] field = "server_port" -> "MCP_SCHEDULER_SERVER_PORT"

EnvNames ==
    {env_name(f) : f \in Fields} \cup {"MCP_SCHEDULER_PORT", "MCP_SCHEDULER_CONFIG_FILE"}

\* main(): the flags given are copied into os.environ (the values examined
\* are non-empty texts, so a value given is a true one)
set_environ(args, environ) ==
    [n \in EnvNames |->
        CASE n = "MCP_SCHEDULER_CONFIG_FILE" /\ args.config # None -> args.config
          [] n = "MCP_SCHEDULER_PORT" /\ args.port # None -> args.port
          [] n = "MCP_SCHEDULER_LOG_LEVEL" /\ args.log_level # None -> args.log_level
          [] OTHER -> environ[n]]

\* pydantic's env_settings source: a field's value from its variable
env_settings(environ) == [f \in Fields |-> environ[env_name(f)]]

\* Config.json_config_settings: the content of the file that
\* MCP_SCHEDULER_CONFIG_FILE names, {} without one
json_config_settings(environ, files) ==
    IF environ["MCP_SCHEDULER_CONFIG_FILE"] # None
       /\ environ["MCP_SCHEDULER_CONFIG_FILE"][1] \in DOMAIN files
    THEN files[environ["MCP_SCHEDULER_CONFIG_FILE"][1]]
    ELSE [f \in Fields |-> None]

\* the sources BaseSettings consults, the first having the highest priority.
\* pydantic 1 takes them from the inner Config.customise_sources;
\* pydantic-settings 2 does not know that hook and keeps its own order, in
\* which the JSON file does not occur.  Config() passes no init values and
\* no secrets directory is set.
customise_sources(pydantic, environ, files) ==
    IF pydantic = 1
    THEN <<env_settings(environ), json_config_settings(environ, files)>>
    ELSE <<env_settings(environ)>>

\* BaseSettings.__init__: each field from the first source that has it
build_values(ordered) ==
    [f \in Fields |->
        IF \E k \in 1..Len(ordered) : ordered[k][f] # None
        THEN ordered[CHOOSE k \in 1..Len(ordered) :
                        /\ ordered[k][f] # None
                        /\ \A j \in 1..(k - 1) : ordered[j][f] = None][f][1]
        ELSE Defaults[f]]

\* main() up to config = Config()
load_config(src) ==
    build_values(customise_sources(src.pydantic,
                                   set_environ(src.args, src.environ), src.files))

\* what each place may say for a setting
Given(values) == {None} \cup {Some(v) : v \in values}

\* the start-ups examined: the installed pydantic, the flags, the
\* environment and the one config file c.json
Sources ==
    [pydantic : {1, 2},
     args : [config : Given({"c.json"}),
             port : Given({"9003"}),
             log_level : Given({"ERROR"})],
     environ : {e \in [EnvNames -> Given({"DEBUG", "9001", "c.json"})] :
                  /\ e["MCP_SCHEDULER_LOG_LEVEL"] \in Given({"DEBUG"})
                  /\ e["MCP_SCHEDULER_SERVER_PORT"] \in Given({"9001"})
                  /\ e["MCP_SCHEDULER_PORT"] = None
                  /\ e["MCP_SCHEDULER_CONFIG_FILE"] \in Given({"c.json"})},
     files : {[p \in {"c.json"} |-> c] :
                  c \in [log_level : Given({"WARNING"}),
                         server_port : Given({"9002"})]}]

\* the process starts and loads its configuration
LoadConfig ==
    /\ sources = <<>>
    /\ \E src \in Sources :
          /\ sources' = <<src>>
          /\ settings' = <<load_config(src)>>
    /\ UNCHANGED <<engine_vars, call, returned, execution, process, stdio_vars,
                   reminder_vars>>

SpecConfig == Idle /\ [][LoadConfig]_vars

(***************************************************************************)
(* Concurrent reminder executions (Executor._execute_reminder_task)        *)
(***************************************************************************)
\* how many reminder executions, of distinct tasks, are in progress at once
MaxReminders == 3

\* the title and message of the task of execution r
ReminderOf(r) == [title |-> <<"T", Digit(r)>>, message |-> <<"m", Digit(r)>>]

\* _execute_reminder_task of execution r on a host where the file write
\* fails or not and the notification command ends with status rc
reminder_result(r, write_fails, rc) ==
    execute_reminder_task(ReminderOf(r).title, ReminderOf(r).message, host,
        [DefaultEnv EXCEPT !.tools = {notify_send, osascript},
                           !.write_fails = write_fails, !.rc = rc])

\* Windows, lines 337-427: notification.hta is opened for writing and
\* filled with this execution's title and message, then the execution awaits
\* the beep command, which lets other executions run
WriteHta(r) ==
    /\ host = "Windows"
    /\ reminder[r].pc = "start"
    /\ \E write_fails \in BOOLEAN :
          IF write_fails
          THEN /\ reminder' = [reminder EXCEPT ![r] =
                     [pc |-> "done", shown |-> <<>>,
                      result |-> <<reminder_result(r, TRUE, 0)>>]]
               /\ UNCHANGED temp_file
          ELSE /\ temp_file' = <<ReminderOf(r)>>
               /\ reminder' = [reminder EXCEPT ![r].pc = "beep"]
    /\ UNCHANGED <<engine_vars, call, returned, execution, process, stdio_vars,
                   config_vars, host>>

\* Windows, lines 481-489: `start mshta.exe "<temp_html>"` is run through
\* the shell and its result is mapped; start returns once mshta is launched
StartMshta(r) ==
    /\ host = "Windows"
    /\ reminder[r].pc = "beep"
    /\ \E rc \in {0, 1} :
          reminder' = [reminder EXCEPT ![r] =
              [pc |-> IF reminder_result(r, FALSE, rc).error = None
                      THEN "launched" ELSE "done",
               shown |-> <<>>,
               result |-> <<reminder_result(r, FALSE, rc)>>]]
    /\ UNCHANGED <<engine_vars, call, returned, execution, process, stdio_vars,
                   config_vars, host, temp_file>>

\* the launched mshta opens the file named on its command line and renders
\* what the file holds at that moment
MshtaRenders(r) ==
    /\ reminder[r].pc = "launched"
    /\ reminder' = [reminder EXCEPT ![r].pc = "done", ![r].shown = temp_file]
    /\ UNCHANGED <<engine_vars, call, returned, execution, process, stdio_vars,
                   config_vars, host, temp_file>>

\* macOS and Linux, lines 429-489: the command is a local string holding
\* this execution's title and message; the notifier shows what it is given
Notify(r) ==
    /\ host # "Windows"
    /\ reminder[r].pc = "start"
    /\ \E rc \in {0, 1} :
          reminder' = [reminder EXCEPT ![r] =
              [pc |-> "done",
               shown |-> IF reminder_result(r, FALSE, rc).error = None
                         THEN <<ReminderOf(r)>> ELSE <<>>,
               result |-> <<reminder_result(r, FALSE, rc)>>]]
    /\ UNCHANGED <<engine_vars, call, returned, execution, process, stdio_vars,
                   config_vars, host, temp_file>>

\* the executions have been dispatched on some host and none has run yet
InitReminders ==
    /\ now = BootTime
    /\ engine = "running"
    /\ enabled = [t \in TaskIds |-> TRUE]
    /\ next_run_at = [t \in TaskIds |-> next_trigger(Schedule[t], BootTime)]
    /\ history = <<>>
    /\ in_flight = {}
    /\ run_now_pc = <<>>
    /\ call = <<>>
    /\ returned = <<>>
    /\ execution = <<>>
    /\ schedule = Schedule
    /\ process = "up"
    /\ written = <<>>
    /\ stdout = <<>>
    /\ stderr = <<>>
    /\ stdin = <<>>
    /\ lines = <<>>
    /\ sources = <<>>
    /\ settings = <<>>
    /\ host \in Platforms
    /\ temp_file = <<>>
    /\ reminder = [r \in 1..MaxReminders |-> [pc |-> "start", shown |-> <<>>, result |-> <<>>]]

SpecReminders ==
    InitReminders
    /\ [][\E r \in 1..MaxReminders :
              WriteHta(r) \/ StartMshta(r) \/ MshtaRenders(r) \/ Notify(r)]_vars

(***************************************************************************)

(* C17, C18: the standard streams                                          *)
(***************************************************************************)
RECURSIVE JsonStream(_, _)
\* from index i on, s holds well-formed JSON values and white space only
JsonStream(s, i) ==
    IF SkipWs(s, i) > Len(s) THEN TRUE
    ELSE LET after == JsonValue(s, SkipWs(s, i))
         IN  after # 0 /\ JsonStream(s, after)

\* a written text that is not a JSON value (white space aside)
OtherText(data) == Strip(data) # <<>> /\ ~json_loads(data)

Diverted(data) ==
    \E m \in 1..Len(stderr) : Contains(stderr[m], Take(data, 100))

\* C17: under the stdio transport, after every sequence of writes to
\* sys.stdout the real standard output holds well-formed JSON values only,
\* and every written text that is not a JSON value is on stderr instead.
C17_OnlyJsonOnStdout ==
    /\ JsonStream(stdout, 1)
    /\ \A k \in 1..Len(written) : OtherText(written[k]) => Diverted(written[k])

\* a line that is not a well-formed JSON value (blank lines and end of
\* file aside)
Malformed(line) == Strip(line) # <<>> /\ ~json_loads(Strip(line))

ParseErrorCode == <<"-", "3", "2", "7", "0", "0">>

\* C18: every malformed input line, whether or not it starts like JSON, is
\* answered by readline with a JSON-RPC error whose code is -32700.
C18_MalformedReported ==
    \A k \in 1..Len(stdin) :
        Malformed(stdin[k]) => Contains(lines[k], ParseErrorCode)

(***************************************************************************)
(* C19: configuration priority                                             *)
(***************************************************************************)
\* what the flag of a setting says
FlagValue(src, field) ==
    IF field = "log_level" THEN src.args.log_level ELSE src.args.port

\* what the config file says, when a flag or the environment names one
FileValue(src, field) ==
    IF src.args.config # None \/ src.environ["MCP_SCHEDULER_CONFIG_FILE"] # None
    THEN src.files["c.json"][field]
    ELSE None

\* what the environment says
EnvValue(src, field) == src.environ[env_name(field)]

\* C19: every setting is resolved from the environment variable, the JSON
\* config file and the CLI flag in increasing priority: the flag when given,
\* else the config file's value, else the environment's, else the default.
C19_IncreasingPriority ==
    settings # <<>> =>
        \A f \in Fields :
            settings[1][f] =
                IF FlagValue(sources[1], f) # None THEN FlagValue(sources[1], f)[1]
                ELSE IF FileValue(sources[1], f) # None THEN FileValue(sources[1], f)[1]
                ELSE IF EnvValue(sources[1], f) # None THEN EnvValue(sources[1], f)[1]
                ELSE Defaults[f]

(***************************************************************************)
(* C20: stopping the scheduler                                             *)
(***************************************************************************)
\* C20: an execution that is in flight, whether or not a stop (stop() or
\* SIGTERM) is requested meanwhile, reaches a terminal record: no execution
\* stays in status running forever.
C20_InFlightCompletes ==
    \A i \in 1..MaxExec : []<>(~(i \in Rows /\ history[i].status = "running"))

(***************************************************************************)
(* C21: update_task against the scheduling context                         *)
(***************************************************************************)
\* a timestamp that the schedule's grid holds
OnSchedule(period, timestamp) == timestamp % period = 0

\* C21: whatever the interleaving of update_task with the completion of an
\* execution of the same task, once no execution of the task is running the
\* persisted next_run_at is a trigger time of the task's current schedule.
C21_CurrentSchedule ==
    \A t \in TaskIds :
        Running(t) = {} => OnSchedule(schedule[t], next_run_at[t])

(***************************************************************************)
(* C22: the status of a TaskExecution                                      *)
(***************************************************************************)
Terminal == {"completed", "failed"}

Mechanisms == <<notify_send, zenity, xmessage>>

\* the position of the first installed mechanism, 0 when none is installed
FirstAvailable(env) ==
    IF \A k \in 1..Len(Mechanisms) : Mechanisms[k] \notin env.tools THEN 0
    ELSE CHOOSE k \in 1..Len(Mechanisms) :
             /\ Mechanisms[k] \in env.tools
             /\ \A j \in 1..(k - 1) : Mechanisms[j] \notin env.tools

\* the position of the mechanism a notification command invokes, 0 for none
MechanismOf(command) ==
    IF \A k \in 1..Len(Mechanisms) : ~IsPrefix(Mechanisms[k] \o <<" ">>, command) THEN 0
    ELSE CHOOSE k \in 1..Len(Mechanisms) : IsPrefix(Mechanisms[k] \o <<" ">>, command)

NoCommandOnLinux ==
    <<"N","o"," ","n","o","t","i","f","i","c","a","t","i","o","n"," ","c","o","m","m","a","n","d"," ","a","v","a","i","l","a","b","l","e"," ","o","n"," ","t","h","i","s"," ","s","y","s","t","e","m"," ","(","L","i","n","u","x",")">>

LinuxReminderReturned ==
    /\ Returned
    /\ call[1].task.type = "reminder"
    /\ call[1].task.reminder_message # <<>>
    /\ call[1].platform = "Linux"

\* C23: on Linux a reminder with a message invokes the first installed
\* mechanism in the order notify-send, zenity, xmessage (never a later one
\* while an earlier one is installed), the process it starts is that
\* mechanism or a shell given its command, and it fails with the error "No
\* notification command available on this system (Linux)" exactly when none
\* of the three is installed.
C23_FirstAvailableMechanism ==
    LinuxReminderReturned =>
        LET command == linux_command(call[1].task.reminder_title,
                                     call[1].task.reminder_message, call[1].env)
            first == FirstAvailable(call[1].env)
        IN  /\ MechanismOf(command) = first
            /\ (returned[1].error = Some(NoCommandOnLinux)) <=> (first = 0)
            /\ first # 0 =>
                  /\ spawned(command, "Linux", call[1].env)
                  /\ \/ use_shell(command, "Linux")
                     \/ shlex_split(command).args[1] = Mechanisms[first]

\* a Linux host without notify-send but with zenity and xmessage: the
\* reminder returned and was shown with zenity
C23_ZenityUsed ==
    /\ LinuxReminderReturned
    /\ call[1].env.tools = {zenity, xmessage}
    /\ returned[1].status = "completed"
    /\ MechanismOf(linux_command(call[1].task.reminder_title,
                                 call[1].task.reminder_message, call[1].env)) = 2

\* the notification command a returned reminder call handed to
\* _execute_shell_command, <<>> when none was built
NotificationCommand ==
    IF ~Returned \/ call[1].task.type # "reminder" \/ call[1].task.reminder_message = <<>>
    THEN <<>>
    ELSE IF call[1].platform = "Windows"
         THEN IF windows_command(call[1].env).raised THEN <<>>
              ELSE windows_command(call[1].env).output[1]
         ELSE IF call[1].platform = "Darwin"
              THEN darwin_command(call[1].task.reminder_title, call[1].task.reminder_message)
              ELSE linux_command(call[1].task.reminder_title,
                                 call[1].task.reminder_message, call[1].env)

\* C24: the notification command built for a reminder is run in
\* shell-interpreted mode, on every platform and for every title and
\* message, and a command that takes longer than the configured execution
\* timeout is cut off with the timeout error.
C24_NotificationThroughShell ==
    NotificationCommand # <<>> =>
        /\ use_shell(NotificationCommand, call[1].platform)
        /\ (/\ spawned(NotificationCommand, call[1].platform, call[1].env)
            /\ expires(call[1].env.duration, shell_timeout(call[1].config)))
           => returned[1].status = "failed"

\* position p of the text lies inside a string literal
InString(s, p) ==
    Cardinality({q \in 1..(p - 1) : s[q] = "\"" /\ At(s, q - 1) # "\\"}) % 2 = 1

\* how many objects and arrays are open at position p
Depth(s, p) ==
    Cardinality({q \in 1..(p - 1) : s[q] \in {"{", "["} /\ ~InString(s, q)})
    - Cardinality({q \in 1..(p - 1) : s[q] \in {"}", "]"} /\ ~InString(s, q)})

\* the numeric id member of the outermost object of a request line, None
\* when the line has none
TopLevelId(s) ==
    LET top == {p \in IdMatches(s) : Depth(s, p) = 1 /\ At(s, 1) = "{"}
    IN  IF top = {} THEN None
        ELSE LET p == CHOOSE q \in top : \A r \in top : q <= r
             IN  Some(SubSeq(s, IdDigits(s, p), DigitsEnd(s, IdDigits(s, p)) - 1))

\* readline answered line k with a generated error response
ErrorResponse(k) ==
    /\ stdin[k] # <<>>
    /\ ~Skipped(Strip(stdin[k]))
    /\ ~json_loads(Strip(stdin[k]))

\* the text of the id member of a generated error response
ResponseId(response) ==
    SubSeq(response, 23, Len(response) - (Len(ParseError(<<>>)) - 22))

\* C25: when the request id of a malformed line cannot be recovered, the id
\* of the generated error response is null; an id that is not null is the
\* id member of the outermost object of the request on that line.
C25_ErrorIdIsRequestId ==
    \A k \in 1..Len(stdin) :
        ErrorResponse(k) =>
            /\ TopLevelId(Strip(stdin[k])) = None
                  => ResponseId(lines[k]) = <<"n", "u", "l", "l">>
            /\ ResponseId(lines[k]) # <<"n", "u", "l", "l">>
                  => Some(ResponseId(lines[k])) = TopLevelId(Strip(stdin[k]))

\* C26: readline hands every input line that is a well-formed JSON value to
\* the reader unchanged, whatever text the JSON contains, and passes end of
\* input through.
C26_ValidLinesUnchanged ==
    \A k \in 1..Len(stdin) :
        (stdin[k] = <<>> \/ json_loads(Strip(stdin[k]))) => lines[k] = stdin[k]

\* the texts of a sequence of write calls, one after the other
RECURSIVE Joined(_)
Joined(texts) ==
    IF texts = <<>> THEN <<>> ELSE Head(texts) \o Joined(Tail(texts))

\* the write calls together delivered well-formed JSON messages, starting
\* with an object or an array
WroteMessages ==
    /\ LooksLikeJson(Joined(written))
    /\ JsonStream(Joined(written), 1)

\* C27: under the stdio transport, when the write calls to sys.stdout
\* together make up well-formed JSON messages, the real stdout holds exactly
\* the written text, complete and in write order, however the text was
\* split into write calls: no chunk and no terminating newline is dropped
\* or diverted to stderr.
C27_FramingPreserved ==
    WroteMessages => stdout = Joined(written)

\* C28: when reminder executions of distinct tasks run concurrently, each
\* one that shows a notification shows its own title and message, and each
\* one reports a result of its own (the displayed-notification output names
\* its own title), under every interleaving and on every platform.
C28_OwnNotification ==
    \A r \in DOMAIN reminder :
        /\ reminder[r].shown # <<>> => reminder[r].shown[1] = ReminderOf(r)
        /\ (reminder[r].result # <<>> /\ reminder[r].result[1].output # None)
              => Contains(reminder[r].result[1].output[1], ReminderOf(r).title)

\* what the type-specific action of the returned call came to
ActionResult ==
    dispatch(call[1].task, call[1].platform, call[1].ai_client, call[1].env)

\* C29: the action of a shell_command, api_call, ai or reminder task never
\* raises: every failure, a spawn failure or an unparsable command syntax
\* included, comes back as an (output, error) pair with the error
\* populated.
C29_ActionsNeverRaise ==
    (/\ Returned
     /\ call[1].task.type \in {"shell_command", "api_call", "ai", "reminder"})
    => /\ ~ActionResult.raised
       /\ (/\ call[1].task.type = "shell_command"
           /\ ~spawned(call[1].task.command, call[1].platform, call[1].env))
          => /\ ActionResult.output = None
             /\ Truthy(ActionResult.error)

====
